---- MODULE Spec2Model ----
(***************************************************************************)
(* A model of gdeltloader.py: one invocation of the script, from the       *)
(* parsed command line to the process exit, over a working directory, an   *)
(* HTTP server and the "files" collection of the database.                 *)
(*                                                                         *)
(* Text is modelled as sequences of one-character strings, so that the     *)
(* case of a hex letter and the digits of a size are things the script's   *)
(* conversions act on. A URL is the sequence of its '/'-separated parts.   *)
(* The time stamp in the name of the written manifest file is left out.    *)
(* A manifest is a sequence of lines, a line the sequence of its           *)
(* whitespace-separated tokens (what l.split() returns).                   *)
(***************************************************************************)
EXTENDS Integers, Sequences, FiniteSets, TLC

VARIABLES
    args,            \* the parsed command line (argparse namespace)
    pc,              \* the script's position
    url,             \* the manifest URL chosen at lines 95-98
    filename,        \* the manifest file the loop reads
    local_list,      \* content of the file --local names, when it exists
    stamped,         \* the timestamped manifest file written at line 138
    lines,           \* the lines of the opened manifest (file_list)
    idx,             \* index of the line the for loop is at
    size, md5, zip,  \* the loop's variables (line 143-145)
    local_zip_file,  \* line 149 / 154
    computed_md5,    \* line 157
    disk,            \* working directory: file name -> content
    files,           \* the "files" collection, in insertion order
    events_geo,      \* TRUE once the aggregate wrote events_geo
    netlog,          \* history: every HTTP request issued, in order
    log,             \* history: what was done for which manifest line
    raised,          \* the uncaught exception, if any
    exit_status      \* the process exit status, -1 while running

vars == <<args, pc, url, filename, local_list, stamped, lines, idx, size, md5,
          zip, local_zip_file, computed_md5, disk, files, events_geo, netlog,
          log, raised, exit_status>>

\* Longest manifest considered.
MaxLines == 2

-----------------------------------------------------------------------------
(* The environment: URLs, file contents, the server's answers.             *)

None == "<None>"
Absent == "<absent>"

MasterUrl == <<"http:", "", "data.gdeltproject.org", "gdeltv2", "masterfilelist.txt">>
IncrementalUrl == <<"http:", "", "data.gdeltproject.org", "gdeltv2", "lastupdate.txt">>

ZipUrlA == <<"http:", "", "example.org", "a.zip">>
ZipUrlB == <<"http:", "", "example.org", "gdeltv2", "b.zip">>
ZipUrls == {ZipUrlA, ZipUrlB}

\* Byte contents an archive file or a response body may have: two zip
\* archives, one content that is no zip archive, and no bytes at all.
Empty == ""
Contents == {"Z1", "Z2", "J", Empty}

\* The files of the working directory the model follows.
ArchiveNames == {"a.zip", "b.zip"}
MemberNames == {"x.csv", "y.csv"}
DiskNames == ArchiveNames \cup MemberNames

\* The manifest files that exist locally.
LocalLists == {"list.txt"}

HttpStatuses == {200, 404}

-----------------------------------------------------------------------------
(* Pure functions of the script and of the libraries it calls.             *)

\* hashlib.md5 of a content, as the sequence of its 4-bit values (shortened).
Digest(content) ==
    CASE content = "Z1" -> <<10, 11>>
      [] content = "Z2" -> <<10, 12>>
      [] content = Empty -> <<13, 4>>
      [] OTHER -> <<1, 13>>

HexDigits == <<"0", "1", "2", "3", "4", "5", "6", "7", "8", "9",
               "a", "b", "c", "d", "e", "f">>

\* hasher.hexdigest(): lower-case hex.
hexdigest(d) == [i \in 1..Len(d) |-> HexDigits[d[i] + 1]]

compute_md5(file) == hexdigest(Digest(disk[file]))

local_path(u) == u[Len(u)]

DecimalDigits == <<"0", "1", "2", "3", "4", "5", "6", "7", "8", "9">>

IsDecimal(tok) ==
    /\ Len(tok) > 0
    /\ \A i \in 1..Len(tok) : \E d \in 1..10 : DecimalDigits[d] = tok[i]

DigitValue(ch) == (CHOOSE d \in 1..10 : DecimalDigits[d] = ch) - 1

RECURSIVE int(_)
int(tok) ==
    IF Len(tok) = 0 THEN 0
    ELSE 10 * int(SubSeq(tok, 1, Len(tok) - 1)) + DigitValue(tok[Len(tok)])

\* size, md5, zip = l.split() succeeds, and int(size) does.
Parses(l) == Len(l) = 3 /\ IsDecimal(l[1])

\* zipfile: is the content a zip archive, and its members.
IsZip(content) == content \in {"Z1", "Z2"}

namelist(content) ==
    CASE content = "Z1" -> <<"x.csv">>
      [] content = "Z2" -> <<"y.csv">>
      [] OTHER -> <<>>

\* The decoded text of a member, as written to the extracted file.
MemberText(content, name) == content \o "/" \o name

Range(s) == {s[i] : i \in 1..Len(s)}

extract_zip_file(filepath) ==
    [n \in DiskNames |->
        IF n \in Range(namelist(disk[filepath]))
        THEN MemberText(disk[filepath], n)
        ELSE disk[n]]

\* Lines 36-44: with no chunk received `i` is never bound, and line 43
\* reads it.
ReadsUnboundIndex(body) == body = Empty

\* r.raise_for_status() raises.
raise_for_status(status) == status >= 400

\* download_file with the file opened and written before the status is
\* looked at.
download_file_WriteFirst(u, status, body) ==
    [disk EXCEPT ![local_path(u)] = body]

\* The working directory after download_file(u) got `status` and `body`.
download_file(u, status, body) ==
    IF raise_for_status(status)
    THEN disk
    ELSE [disk EXCEPT ![local_path(u)] = body]

exists(path) == disk[path] # Absent

\* os.path.isfile answering yes for any path.
isfile_Any(path) == TRUE

isfile(path) == path \in LocalLists

Truthy(s) == s # None /\ s # ""

\* The --mapgeo test placed after the --local test.
TakesMapGeo_AfterLocal == args.mapgeo /\ ~Truthy(args.local)

\* Line 105.
TakesMapGeo == args.mapgeo

\* Line 147 with the `not` dropped.
ReusesLocal_NoNot(z) == exists(local_path(z)) /\ args.overwrite

\* Line 147.
ReusesLocal(z) == exists(local_path(z)) /\ ~args.overwrite

\* Line 158 with the comparison dropped.
Md5Matches_Always(computed, declared) == TRUE

\* Line 158.
Md5Matches(computed, declared) == computed = declared

\* Line 166 without the continue.
AfterMismatch_FallThrough == "extract"

\* Line 166: where the loop goes on a mismatch (continue).
AfterMismatch == "loop"

-----------------------------------------------------------------------------
(* The inputs.                                                             *)

\* Manifest md5 tokens: the digest of Z1 in lower and in upper case, and
\* the digest of Z2.
Md5Lower == <<"a", "b">>
Md5Upper == <<"A", "B">>
Md5Other == <<"a", "c">>

SizeToken == <<"1", "0", "2", "4">>

BlankLine == <<>>
NonIntLine == <<<<"1", "k">>, Md5Lower, ZipUrlA>>

ManifestLines ==
    {<<SizeToken, Md5Lower, ZipUrlA>>,
     <<SizeToken, Md5Upper, ZipUrlA>>,
     <<SizeToken, Md5Other, ZipUrlB>>,
     BlankLine,
     NonIntLine}

RECURSIVE SeqsUpTo(_, _)
SeqsUpTo(S, n) ==
    IF n = 0 THEN {<<>>}
    ELSE LET shorter == SeqsUpTo(S, n - 1)
         IN shorter \cup {Append(q, x) : q \in {r \in shorter : Len(r) = n - 1}, x \in S}

Manifests == SeqsUpTo(ManifestLines, MaxLines)

ArgsSet ==
    [ziplist : {"master", "incremental"},
     local : {None, "", "missing.txt", "list.txt"},
     overwrite : BOOLEAN,
     download : BOOLEAN,
     mapgeo : BOOLEAN]

-----------------------------------------------------------------------------
(* The script.                                                             *)

Init ==
    /\ args \in ArgsSet
    /\ pc = "start"
    /\ url = <<>>
    /\ filename = None
    /\ local_list \in IF isfile(args.local) THEN Manifests ELSE {<<>>}
    /\ stamped = [written |-> FALSE, text |-> <<>>]
    /\ lines = <<>>
    /\ idx = 0
    /\ size = 0
    /\ md5 = <<>>
    /\ zip = <<>>
    /\ local_zip_file = None
    /\ computed_md5 = <<>>
    /\ disk \in [DiskNames -> {Absent} \cup Contents]
    /\ \A n \in MemberNames : disk[n] = Absent
    /\ files = <<>>
    /\ events_geo = FALSE
    /\ netlog = <<>>
    /\ log = <<>>
    /\ raised = None
    /\ exit_status = -1

Exit(status) ==
    /\ pc' = "exited"
    /\ exit_status' = status
    /\ raised' = raised

\* An uncaught exception ends the interpreter with status 1.
Raise(exc) ==
    /\ pc' = "exited"
    /\ exit_status' = 1
    /\ raised' = exc

Running(next) ==
    /\ pc' = next
    /\ UNCHANGED <<exit_status, raised>>

\* Lines 95-103: the manifest URL, the client and its collections.
Setup ==
    /\ pc = "start"
    /\ url' = IF args.ziplist = "master" THEN MasterUrl ELSE IncrementalUrl
    /\ Running("branch")
    /\ UNCHANGED <<args, filename, local_list, stamped, lines, idx, size, md5,
                   zip, local_zip_file, computed_md5, disk, files, events_geo,
                   netlog, log>>

\* Lines 105-118.
MapGeo ==
    /\ pc = "branch"
    /\ TakesMapGeo
    /\ events_geo' = TRUE
    /\ Exit(0)
    /\ UNCHANGED <<args, url, filename, local_list, stamped, lines, idx, size,
                   md5, zip, local_zip_file, computed_md5, disk, files, netlog,
                   log>>

\* Lines 120-125.
LocalManifest ==
    /\ pc = "branch"
    /\ ~TakesMapGeo
    /\ Truthy(args.local)
    /\ IF isfile(args.local)
       THEN filename' = args.local /\ Running("resolved")
       ELSE filename' = filename /\ Exit(1)
    /\ UNCHANGED <<args, url, local_list, stamped, lines, idx, size, md5, zip,
                   local_zip_file, computed_md5, disk, files, events_geo,
                   netlog, log>>

\* Lines 126-138: the response's status is not looked at.
FetchManifest ==
    /\ pc = "branch"
    /\ ~TakesMapGeo
    /\ ~Truthy(args.local)
    /\ \E status \in HttpStatuses, body \in Manifests :
        /\ url' = IF args.ziplist = "master" THEN MasterUrl ELSE IncrementalUrl
        /\ netlog' = Append(netlog, [url |-> url', status |-> status])
        /\ filename' = "gdelt_" \o args.ziplist \o "-file.txt"
        /\ stamped' = [written |-> TRUE, text |-> body]
    /\ Running("resolved")
    /\ UNCHANGED <<args, local_list, lines, idx, size, md5, zip, local_zip_file,
                   computed_md5, disk, files, events_geo, log>>

\* Line 140 with download unset: the script ends.
NoDownload ==
    /\ pc = "resolved"
    /\ ~args.download
    /\ Exit(0)
    /\ UNCHANGED <<args, url, filename, local_list, stamped, lines, idx, size,
                   md5, zip, local_zip_file, computed_md5, disk, files,
                   events_geo, netlog, log>>

\* Lines 140-141.
OpenList ==
    /\ pc = "resolved"
    /\ args.download
    /\ lines' = IF filename = args.local THEN local_list ELSE stamped.text
    /\ idx' = 1
    /\ Running("loop")
    /\ UNCHANGED <<args, url, filename, local_list, stamped, size, md5, zip,
                   local_zip_file, computed_md5, disk, files, events_geo,
                   netlog, log>>

\* Line 142 at the end of the file: the script ends.
EndOfList ==
    /\ pc = "loop"
    /\ idx > Len(lines)
    /\ Exit(0)
    /\ UNCHANGED <<args, url, filename, local_list, stamped, lines, idx, size,
                   md5, zip, local_zip_file, computed_md5, disk, files,
                   events_geo, netlog, log>>

\* Lines 142-145.
ParseLine ==
    /\ pc = "loop"
    /\ idx <= Len(lines)
    /\ IF Parses(lines[idx])
       THEN /\ size' = int(lines[idx][1])
            /\ md5' = lines[idx][2]
            /\ zip' = lines[idx][3]
            /\ Running("fetch")
       ELSE /\ UNCHANGED <<size, md5, zip>>
            /\ Raise("ValueError")
    /\ UNCHANGED <<args, url, filename, local_list, stamped, lines, idx,
                   local_zip_file, computed_md5, disk, files, events_geo,
                   netlog, log>>

\* Lines 147-149, then 168.
Reuse ==
    /\ pc = "fetch"
    /\ ReusesLocal(zip)
    /\ local_zip_file' = local_path(zip)
    /\ log' = Append(log, [i |-> idx, e |-> "reuse"])
    /\ Running("extract")
    /\ UNCHANGED <<args, url, filename, local_list, stamped, lines, idx, size,
                   md5, zip, computed_md5, disk, files, events_geo, netlog>>

\* Lines 150-155 and download_file.
Download ==
    /\ pc = "fetch"
    /\ ~ReusesLocal(zip)
    /\ \E status \in HttpStatuses, body \in Contents :
        /\ netlog' = Append(netlog, [url |-> zip, status |-> status])
        /\ disk' = download_file(zip, status, body)
        /\ IF raise_for_status(status)
           THEN /\ Raise("HTTPError")
                /\ UNCHANGED <<local_zip_file, log>>
           ELSE IF ReadsUnboundIndex(body)
           THEN /\ Raise("UnboundLocalError")
                /\ UNCHANGED <<local_zip_file, log>>
           ELSE /\ local_zip_file' = local_path(zip)
                /\ log' = Append(log, [i |-> idx, e |-> "download"])
                /\ Running("verify")
    /\ UNCHANGED <<args, url, filename, local_list, stamped, lines, idx, size,
                   md5, zip, computed_md5, files, events_geo>>

\* Lines 157-166.
Verify ==
    /\ pc = "verify"
    /\ computed_md5' = compute_md5(local_zip_file)
    /\ IF Md5Matches(computed_md5', md5)
       THEN /\ files' = Append(files, [remote |-> zip, local |-> local_zip_file,
                                       size |-> size, md5 |-> md5])
            /\ log' = Append(log, [i |-> idx, e |-> "insert"])
            /\ idx' = idx
            /\ Running("extract")
       ELSE /\ files' = files
            /\ log' = Append(log, [i |-> idx, e |-> "mismatch"])
            /\ idx' = IF AfterMismatch = "loop" THEN idx + 1 ELSE idx
            /\ Running(AfterMismatch)
    /\ UNCHANGED <<args, url, filename, local_list, stamped, lines, size, md5,
                   zip, local_zip_file, disk, events_geo, netlog>>

\* Lines 168-173.
Extract ==
    /\ pc = "extract"
    /\ IF IsZip(disk[local_zip_file])
       THEN /\ disk' = extract_zip_file(local_zip_file)
            /\ log' = Append(log, [i |-> idx, e |-> "extract"])
            /\ idx' = idx + 1
            /\ Running("loop")
       ELSE /\ UNCHANGED <<disk, log, idx>>
            /\ Raise("BadZipFile")
    /\ UNCHANGED <<args, url, filename, local_list, stamped, lines, size, md5,
                   zip, local_zip_file, computed_md5, files, events_geo, netlog>>

Next ==
    \/ Setup
    \/ MapGeo
    \/ LocalManifest
    \/ FetchManifest
    \/ NoDownload
    \/ OpenList
    \/ EndOfList
    \/ ParseLine
    \/ Reuse
    \/ Download
    \/ Verify
    \/ Extract

Spec == Init /\ [][Next]_vars

-----------------------------------------------------------------------------
(* Helpers of the properties.                                              *)

Did(i, what) == \E k \in 1..Len(log) : log[k].i = i /\ log[k].e = what

Requests(nl, u) == Cardinality({k \in 1..Len(nl) : nl[k].url = u})

LowerHex(ch) ==
    CASE ch = "A" -> "a" [] ch = "B" -> "b" [] ch = "C" -> "c"
      [] ch = "D" -> "d" [] ch = "E" -> "e" [] ch = "F" -> "f"
      [] OTHER -> ch

Lower(tok) == [i \in 1..Len(tok) |-> LowerHex(tok[i])]

\* The size in bytes of a content.
FileSize(content) ==
    CASE content = "Z1" -> 1024
      [] content = "Z2" -> 2048
      [] OTHER -> 512

JustVerified ==
    /\ Len(log) > 0
    /\ log[Len(log)].e \in {"insert", "mismatch"}

-----------------------------------------------------------------------------
\* C1: a record enters "files" only in a step that computed the checksum of
\* the local archive and found it equal to the manifest's; when the computed
\* checksum differs, the archive stays on disk as it is, "files" is
\* unchanged and the entry is not extracted.
C1_RecordOnlyWhenChecksumEqual ==
    [][/\ files' # files =>
            /\ pc = "verify"
            /\ files' = Append(files, [remote |-> zip,
                                       local |-> local_path(zip),
                                       size |-> size, md5 |-> md5])
            /\ computed_md5' = md5
            /\ hexdigest(Digest(disk[local_path(zip)])) = md5
       /\ (pc = "verify" /\ hexdigest(Digest(disk[local_path(zip)])) # md5) =>
            /\ files' = files
            /\ disk' = disk
            /\ exists(local_path(zip))
            /\ pc' # "extract"
      ]_vars

C1_Witness ==
    /\ Len(files) = 1
    /\ \E i \in 1..MaxLines : Did(i, "mismatch") /\ ~Did(i, "insert")
    /\ \E i \in 1..MaxLines : Did(i, "insert")

\* C2: an entry whose archive is already present with the declared size
\* and checksum, overwrite not requested, gets exactly one record carrying
\* its size, checksum and URL, and its archive is extracted.
C2_PresentArchiveRecordedOnce ==
    (/\ pc = "exited"
     /\ exit_status = 0
     /\ args.download
     /\ ~args.overwrite
     /\ Len(lines) = 1
     /\ Did(1, "reuse")
     /\ compute_md5(local_path(zip)) = md5
     /\ FileSize(disk[local_path(zip)]) = size)
        => /\ files = <<[remote |-> zip, local |-> local_path(zip),
                         size |-> size, md5 |-> md5]>>
           /\ Did(1, "extract")

\* C3: after a checksum mismatch on an entry nothing is recorded or
\* extracted for it and the loop has moved past it; a run that ends without
\* an exception has gone through every line of the manifest; the step that
\* finds the mismatch leaves the run going, at the next line.
C3_MismatchSkipsOnlyThatEntry ==
    /\ [](\A i \in 1..Len(lines) :
            Did(i, "mismatch") =>
                /\ ~Did(i, "insert")
                /\ ~Did(i, "extract")
                /\ idx > i
                /\ (pc = "exited" => (raised # None \/ idx = Len(lines) + 1)))
    /\ [][(pc = "verify" /\ compute_md5(local_zip_file) # md5) =>
            /\ pc' = "loop"
            /\ idx' = idx + 1
            /\ exit_status' = -1
            /\ raised' = None
            /\ files' = files
            /\ disk' = disk
         ]_vars

C3_Witness ==
    /\ Did(1, "mismatch")
    /\ Did(2, "insert")
    /\ Did(2, "extract")
    /\ Len(files) = 1

\* C4: the verifier accepts exactly when the computed digest and the
\* manifest's checksum are equal ignoring the case of the hex letters.
C4_AcceptsIgnoringCase ==
    JustVerified =>
        (log[Len(log)].e = "insert" <=> Lower(computed_md5) = Lower(md5))

\* C5: while an archive exists locally and overwrite is not requested, no
\* step issues a request for a URL that names it, and no step changes it.
C5_FetchIdempotent ==
    [][\A u \in ZipUrls :
          (exists(local_path(u)) /\ ~args.overwrite) =>
              /\ Requests(netlog', u) = Requests(netlog, u)
              /\ disk'[local_path(u)] = disk[local_path(u)]
      ]_vars

C5_Witness ==
    /\ ~args.overwrite
    /\ Did(1, "download")
    /\ Did(2, "reuse")
    /\ lines[1][3] = lines[2][3]
    /\ Requests(netlog, lines[1][3]) = 1

\* C6: with --local naming a path that does not exist and --mapgeo unset,
\* the run ends at once with status 1: no request, no file written, no
\* record inserted.
C6_MissingLocalExitsOne ==
    (/\ Truthy(args.local)
     /\ args.local \notin LocalLists
     /\ ~args.mapgeo
     /\ pc \notin {"start", "branch"})
        => /\ pc = "exited"
           /\ exit_status = 1
           /\ raised = None
           /\ netlog = <<>>
           /\ ~stamped.written
           /\ log = <<>>
           /\ files = <<>>
           /\ \A n \in MemberNames : disk[n] = Absent

C6_Witness ==
    /\ args.local = "missing.txt"
    /\ args.download
    /\ ~args.mapgeo
    /\ pc = "exited"
    /\ exit_status = 1

\* C7: a non-success HTTP response, to the manifest request or to an
\* archive request, ends the run with an error; it is the last request,
\* and its body is not written as the manifest.
C7_NonSuccessResponseFatal ==
    \A k \in 1..Len(netlog) :
        netlog[k].status >= 400 =>
            /\ pc = "exited"
            /\ exit_status # 0
            /\ k = Len(netlog)
            /\ ~stamped.written

\* C8: with --mapgeo set, whatever the other flags, the run reshapes and
\* exits with status 0 and never touches the download pipeline; and only
\* a --mapgeo run reshapes.
C8_MapGeoExclusive ==
    /\ (args.mapgeo /\ pc \notin {"start", "branch"}) =>
            /\ pc = "exited"
            /\ exit_status = 0
            /\ raised = None
            /\ events_geo
            /\ filename = None
            /\ netlog = <<>>
            /\ ~stamped.written
            /\ log = <<>>
            /\ files = <<>>
            /\ \A n \in MemberNames : disk[n] = Absent
    /\ events_geo => args.mapgeo

C8_Witness ==
    /\ args.mapgeo
    /\ args.download
    /\ args.overwrite
    /\ args.local = "missing.txt"
    /\ pc = "exited"
    /\ exit_status = 0
    /\ events_geo

\* C9: every extraction is preceded, for the same manifest line, by a
\* checksum computation that equalled the manifest's checksum.
C9_ExtractOnlyVerified ==
    \A k \in 1..Len(log) :
        log[k].e = "extract" =>
            \E j \in 1..(k - 1) : log[j].i = log[k].i /\ log[j].e = "insert"

\* C10: an archive request answered with a non-success status changes no
\* file of the working directory and leaves "files" as it was.
C10_FailedFetchWritesNothing ==
    [][(/\ pc = "fetch"
        /\ Len(netlog') = Len(netlog) + 1
        /\ netlog'[Len(netlog')].status >= 400) =>
            /\ disk' = disk
            /\ files' = files
            /\ pc' = "exited"
            /\ raised' = "HTTPError"
      ]_vars

C10_Witness ==
    /\ pc = "exited"
    /\ raised = "HTTPError"
    /\ args.overwrite
    /\ exists(local_path(zip))
    /\ Len(netlog) > 0
    /\ netlog[Len(netlog)].url = zip
    /\ netlog[Len(netlog)].status >= 400

====
